---- MODULE Spec2Model ----
(***************************************************************************)
(* Model of the interactive file-manager shell of src/main.js.             *)
(*                                                                         *)
(* One readline 'line' callback (main.js 228-250) is an async function:    *)
(* it runs synchronously up to its first `await`, and the rest runs later, *)
(* either as a microtask (the awaited promise was already settled) or when *)
(* the I/O the handler waits for completes.  readline does not wait for    *)
(* the callback's promise, so the model has one step for the synchronous   *)
(* part of a line (ReadLine), one for the continuation of an already       *)
(* settled handler (Resume) and one for each I/O completion together with  *)
(* the continuation it triggers (Complete).                                *)
(*                                                                         *)
(* Paths are sequences of names, <<>> being the root directory.  An        *)
(* argument token is the sequence of its '/'-separated segments, a leading *)
(* "/" segment marking an absolute path.  The file system is that of one   *)
(* POSIX host without symbolic links, touched by this process only.        *)
(***************************************************************************)
EXTENDS Integers, Sequences, FiniteSets, TLC

VARIABLES
    fs,        \* the file system: existing absolute path -> node
    cwd,       \* process.cwd(), the session's current directory
    jobs,      \* the handler invocations whose 'line' callback has not finished
    streams,   \* the file and transform streams that are open
    nlines,    \* number of lines read so far
    out,       \* what the last step wrote to the console
    ev,        \* the last step: its kind, the invocation it ran, the result
    exitCode   \* Running, or the code the process exited with

vars == <<fs, cwd, jobs, streams, nlines, out, ev, exitCode>>

\* Number of input lines a session reads.
MaxLines == 2

\* Number of input lines a session of navigation commands reads.
MaxNavLines == 3

\* The lines of a session of listings, and the entries of the listed directory.
MaxLsLines == 2

MaxEntries == 3

\* The process is still running.
Running == -1

\* os.homedir(): the user's home directory.
Home == <<"home", "u">>

\* An absent argument (JavaScript undefined); tokens are never empty.
Undefined == <<>>

\* The whitespace item of a raw input line.
WS == <<" ">>

----------------------------------------------------------------------------
(* path module *)

Parent(p) == IF p = <<>> THEN <<>> ELSE SubSeq(p, 1, Len(p) - 1)

IsPrefix(p, q) == Len(p) <= Len(q) /\ SubSeq(q, 1, Len(p)) = p

IsStrictPrefix(p, q) == IsPrefix(p, q) /\ p # q

\* One segment applied to an absolute path, as path.resolve does.
ResolveStep(p, s) ==
    IF s = "/" THEN <<>>
    ELSE IF s = ".." THEN Parent(p)
    ELSE IF s = "." THEN p
    ELSE Append(p, s)

RECURSIVE Resolve(_, _)
\* path.resolve(base, arg): arg interpreted against the absolute path base.
Resolve(base, arg) ==
    IF arg = <<>> THEN base
    ELSE Resolve(ResolveStep(base, Head(arg)), Tail(arg))

\* path.join(dir, arg): as Resolve, but a leading separator does not restart
\* at the root.
Join(dir, arg) == Resolve(dir, SelectSeq(arg, LAMBDA s : s # "/"))

\* path.basename(p) as an argument token; the root has none.
Basename(p) == IF p = <<>> THEN <<>> ELSE <<p[Len(p)]>>

----------------------------------------------------------------------------
(* file system primitives *)

Dir == [kind |-> "dir", data |-> <<>>]

File(d) == [kind |-> "file", data |-> d]

Exists(f, p) == p \in DOMAIN f

IsDir(f, p) == Exists(f, p) /\ f[p].kind = "dir"

IsFile(f, p) == Exists(f, p) /\ f[p].kind = "file"

\* Some proper ancestor of p exists and is not a directory.
BlockedByFile(f, p) ==
    \E n \in 0..(Len(p) - 1) : Exists(f, SubSeq(p, 1, n)) /\ ~IsDir(f, SubSeq(p, 1, n))

\* The error code of a system call on a path that does not exist.
MissingCode(f, p) == IF BlockedByFile(f, p) THEN "ENOTDIR" ELSE "ENOENT"

\* fs.stat(p): "" on success, else the error code.
StatCode(f, p) == IF Exists(f, p) THEN "" ELSE MissingCode(f, p)

\* process.chdir(p): "" on success, else the error code.
ChdirCode(f, p) ==
    IF IsDir(f, p) THEN ""
    ELSE IF Exists(f, p) THEN "ENOTDIR"
    ELSE MissingCode(f, p)

----------------------------------------------------------------------------
(* console output *)

Msg(k, m) == [k |-> k, m |-> m]

\* displayCurrentPath: the current location and the prompt.
displayCurrentPath == <<Msg("display", <<>>)>>

\* The catch block of the dispatch loop.
ReportFailure(m) == <<Msg("error", m)>>

----------------------------------------------------------------------------
(* handlers: the synchronous part, run inside the 'line' callback *)

\* The record of the preceding compression when the step before the line
\* was not the successful completion of one.
NoPrev == [cmd |-> "", src |-> <<>>, dst |-> <<>>, orig |-> <<>>]

\* An invocation of a handler.  src and dst are the resolved paths, data is
\* what the read stream delivered, wfile is where the file behind the open
\* write stream is now.  orig and prev are history only: the content of the
\* source file when the line was read, and the compression that completed
\* just before it.
NoJob == [id |-> 0, cmd |-> "", args |-> <<>>, stage |-> "none",
          failed |-> FALSE, err |-> <<>>, cwd0 |-> <<>>, src |-> <<>>,
          dst |-> <<>>, data |-> <<>>, wfile |-> <<>>, orig |-> <<>>,
          prev |-> NoPrev]

Job(id, cmd, args, stage) ==
    [NoJob EXCEPT !.id = id, !.cmd = cmd, !.args = args, !.stage = stage,
                  !.cwd0 = cwd]

\* A handler whose promise is fulfilled when the call returns.
Fulfilled(id, cmd, args) == Job(id, cmd, args, "settled")

\* A handler whose promise is rejected when the call returns.
Rejected(id, cmd, args, m) ==
    [Job(id, cmd, args, "settled") EXCEPT !.failed = TRUE, !.err = m]

Arg(args, i) == IF Len(args) >= i THEN args[i] ELSE Undefined

Started(job, c, o) == [job |-> job, cwd |-> c, out |-> o]

\* The content of the file at p, nothing when p is not a file.
Content(f, p) == IF p \in DOMAIN f /\ f[p].kind = "file" THEN f[p].data ELSE <<>>

\* The compression that has just completed, if the last step was one.
JustCompressed ==
    IF ev.kind = "io" /\ ev.res = "ok" /\ ev.job.cmd = "compress"
    THEN [cmd |-> "compress", src |-> ev.job.src, dst |-> ev.job.dst,
          orig |-> ev.job.orig]
    ELSE NoPrev

\* navigateUpward without the home-directory test.
navigateUpwardUnbounded(id, args) ==
    Started(Fulfilled(id, "up", args), Parent(cwd), <<>>)

navigateUpward(id, args) ==
    IF cwd # Home
    THEN Started(Fulfilled(id, "up", args), Parent(cwd), <<>>)
    ELSE Started(Fulfilled(id, "up", args), cwd, <<Msg("info", <<"AtRoot">>)>>)

\* navigateToSpecificDirectory resolving against the home directory instead
\* of the current one.
navigateToSpecificDirectoryFromHome(id, args) ==
    LET destination == Arg(args, 1) IN
    IF destination = Undefined
    THEN Started(Rejected(id, "cd", args, <<"Directory path not specified.">>), cwd, <<>>)
    ELSE Started([Job(id, "cd", args, "stat") EXCEPT !.dst = Resolve(Home, destination)],
                 cwd, <<>>)

navigateToSpecificDirectory(id, args) ==
    LET destination == Arg(args, 1) IN
    IF destination = Undefined
    THEN Started(Rejected(id, "cd", args, <<"Directory path not specified.">>), cwd, <<>>)
    ELSE Started([Job(id, "cd", args, "stat") EXCEPT !.dst = Resolve(cwd, destination)],
                 cwd, <<>>)

enumerateDirectoryContents(id, args) ==
    Started([Job(id, "ls", args, "readdir") EXCEPT !.src = cwd], cwd, <<>>)

streamResourceContentToConsole(id, args) ==
    LET resourcePath == Arg(args, 1) IN
    IF resourcePath = Undefined
    THEN Started(Rejected(id, "cat", args, <<"Resource path not specified.">>), cwd, <<>>)
    ELSE Started([Job(id, "cat", args, "read") EXCEPT !.src = Resolve(cwd, resourcePath)],
                 cwd, <<>>)

generateNewEmptyFile(id, args) ==
    LET fileName == Arg(args, 1) IN
    IF fileName = Undefined
    THEN Started(Rejected(id, "add", args, <<"File name not specified.">>), cwd, <<>>)
    ELSE Started([Job(id, "add", args, "writeFile") EXCEPT !.dst = Resolve(cwd, fileName)],
                 cwd, <<>>)

modifyResourceName(id, args) ==
    LET currentPath == Arg(args, 1)
        newNameFragment == Arg(args, 2)
        absoluteOriginalPath == Resolve(cwd, currentPath)
    IN  IF currentPath = Undefined \/ newNameFragment = Undefined
        THEN Started(Rejected(id, "rn", args, <<"Original path or new name not specified.">>),
                     cwd, <<>>)
        ELSE Started([Job(id, "rn", args, "rename") EXCEPT
                          !.src = absoluteOriginalPath,
                          !.dst = Join(Parent(absoluteOriginalPath), newNameFragment)],
                     cwd, <<>>)

\* transferResourceViaStream without the comparison of the two resolved paths.
transferResourceViaStreamUncompared(id, cmd, args) ==
    LET source == Arg(args, 1)
        destinationContainer == Arg(args, 2)
        absoluteSourcePath == Resolve(cwd, source)
        itemName == Basename(absoluteSourcePath)
        absoluteDestinationPath == Resolve(Resolve(cwd, destinationContainer), itemName)
    IN  IF source = Undefined \/ destinationContainer = Undefined
        THEN Started(Rejected(id, cmd, args, <<"Source or destination not specified.">>),
                     cwd, <<>>)
        ELSE Started([Job(id, cmd, args, "stat") EXCEPT
                          !.src = absoluteSourcePath, !.dst = absoluteDestinationPath,
                          !.orig = Content(fs, absoluteSourcePath)],
                     cwd, <<>>)

\* cmd is "cp" (isMoveOperation false) or "mv" (isMoveOperation true).
transferResourceViaStream(id, cmd, args) ==
    LET source == Arg(args, 1)
        destinationContainer == Arg(args, 2)
        absoluteSourcePath == Resolve(cwd, source)
        itemName == Basename(absoluteSourcePath)
        absoluteDestinationPath == Resolve(Resolve(cwd, destinationContainer), itemName)
    IN  IF source = Undefined \/ destinationContainer = Undefined
        THEN Started(Rejected(id, cmd, args, <<"Source or destination not specified.">>),
                     cwd, <<>>)
        ELSE IF absoluteSourcePath = absoluteDestinationPath
        THEN Started(Rejected(id, cmd, args, <<"Source and destination paths are identical.">>),
                     cwd, <<>>)
        ELSE Started([Job(id, cmd, args, "stat") EXCEPT
                          !.src = absoluteSourcePath, !.dst = absoluteDestinationPath,
                          !.orig = Content(fs, absoluteSourcePath)],
                     cwd, <<>>)

obliterateSystemItem(id, args) ==
    LET itemPath == Arg(args, 1) IN
    IF itemPath = Undefined
    THEN Started(Rejected(id, "rm", args, <<"Item path not specified.">>), cwd, <<>>)
    ELSE Started([Job(id, "rm", args, "unlink") EXCEPT !.src = Resolve(cwd, itemPath)],
                 cwd, <<>>)

\* The keys every JavaScript object literal inherits from Object.prototype:
\* functions that return normally when called here, and the prototype
\* object itself, which is not callable.
InheritedFunctions == {"constructor", "toString"}

InheritedObjects == {"__proto__"}

\* obj[key] for an object literal with the given own keys: what kind of
\* value the lookup yields.
Lookup(own, key) ==
    IF key \in own THEN "own"
    ELSE IF key \in InheritedFunctions THEN "function"
    ELSE IF key \in InheritedObjects THEN "object"
    ELSE "undefined"

propertyAccessors == {"--EOL", "--cpus", "--homedir", "--username", "--architecture"}

\* A token as a property key; only single-segment tokens are modelled as keys.
Key(tok) == IF Len(tok) = 1 THEN tok[1] ELSE "/"

reportOperatingSystemProperty(id, args) ==
    LET propertyKey == Arg(args, 1)
        found == Lookup(propertyAccessors, Key(propertyKey))
    IN  IF propertyKey = Undefined
        THEN Started(Rejected(id, "os", args, <<"OS property key not specified.">>), cwd, <<>>)
        ELSE IF found = "own"
        THEN Started(Fulfilled(id, "os", args), cwd, <<Msg("os", propertyKey)>>)
        ELSE IF found = "function"
        THEN Started(Fulfilled(id, "os", args), cwd, <<>>)
        ELSE IF found = "object"
        THEN Started(Rejected(id, "os", args, <<"is not a function">>), cwd, <<>>)
        ELSE Started(Rejected(id, "os", args, <<"Invalid OS property key">> \o propertyKey),
                     cwd, <<>>)

generateResourceChecksum(id, args) ==
    LET resourcePath == Arg(args, 1) IN
    IF resourcePath = Undefined
    THEN Started(Rejected(id, "hash", args, <<"Resource path not specified.">>), cwd, <<>>)
    ELSE Started([Job(id, "hash", args, "read") EXCEPT !.src = Resolve(cwd, resourcePath)],
                 cwd, <<>>)

\* cmd is "compress" (mode encode) or "decompress" (mode decode).  The
\* three streams are created before the call returns.
transformFileWithBrotli(id, cmd, args) ==
    LET sourcePath == Arg(args, 1)
        targetPath == Arg(args, 2)
    IN  IF sourcePath = Undefined \/ targetPath = Undefined
        THEN Started(Rejected(id, cmd, args,
                              <<"Source or target path not specified for transformation.">>),
                     cwd, <<>>)
        ELSE Started([Job(id, cmd, args, "open") EXCEPT
                          !.src = Resolve(cwd, sourcePath),
                          !.dst = Resolve(cwd, targetPath),
                          !.orig = Content(fs, Resolve(cwd, sourcePath)),
                          !.prev = IF cmd = "decompress" THEN JustCompressed ELSE NoPrev],
                     cwd, <<>>)

----------------------------------------------------------------------------
(* file system calls made by the handlers *)

Children(f, p) == {q \in DOMAIN f : Len(q) = Len(p) + 1 /\ Parent(q) = p}

\* fs.readdir(p)
ReaddirCode(f, p) ==
    IF IsDir(f, p) THEN ""
    ELSE IF Exists(f, p) THEN "ENOTDIR"
    ELSE MissingCode(f, p)

\* Opening and reading p through fs.createReadStream(p)
ReadCode(f, p) ==
    IF IsFile(f, p) THEN ""
    ELSE IF IsDir(f, p) THEN "EISDIR"
    ELSE MissingCode(f, p)

\* Creating a file at p, which does not exist yet.
CreateCode(f, p) == IF IsDir(f, Parent(p)) THEN "" ELSE MissingCode(f, p)

\* fs.writeFile(p, '', { flag: 'wx' }): exclusive create
ExclusiveCreateCode(f, p) == IF Exists(f, p) THEN "EEXIST" ELSE CreateCode(f, p)

\* Opening p through fs.createWriteStream(p) (flag 'w': create or truncate)
WriteOpenCode(f, p) ==
    IF IsDir(f, p) THEN "EISDIR"
    ELSE IF IsFile(f, p) THEN ""
    ELSE CreateCode(f, p)

\* The file system with an empty file at p.
Truncate(f, p) == [q \in DOMAIN f \cup {p} |-> IF q = p THEN File(<<>>) ELSE f[q]]

\* What is written through an open write stream lands in the file at p,
\* unless that path no longer names a file.
WriteData(f, p, d) == IF IsFile(f, p) THEN [f EXCEPT ![p] = File(d)] ELSE f

\* fs.unlink(p)
UnlinkCode(f, p) ==
    IF IsFile(f, p) THEN ""
    ELSE IF IsDir(f, p) THEN "EISDIR"
    ELSE MissingCode(f, p)

Remove(f, p) == [q \in DOMAIN f \ {p} |-> f[q]]

\* fs.rename(s, d)
RenameCode(f, s, d) ==
    IF ~Exists(f, s) THEN MissingCode(f, s)
    ELSE IF s = d THEN ""
    ELSE IF ~IsDir(f, Parent(d)) THEN MissingCode(f, d)
    ELSE IF IsDir(f, s) /\ IsStrictPrefix(s, d) THEN "EINVAL"
    ELSE IF IsDir(f, s) /\ IsFile(f, d) THEN "ENOTDIR"
    ELSE IF IsDir(f, s) /\ IsDir(f, d) /\ Children(f, d) # {} THEN "ENOTEMPTY"
    ELSE IF IsFile(f, s) /\ IsDir(f, d) THEN "EISDIR"
    ELSE ""

\* Where the path q under s is after s has been renamed to d.
Rebase(q, s, d) == d \o SubSeq(q, Len(s) + 1, Len(q))

\* The file system after a successful rename: s and all below it move to d.
Renamed(f, s, d) ==
    LET moved == {q \in DOMAIN f : IsPrefix(s, q)}
        kept == (DOMAIN f \ moved) \ {d}
    IN  IF s = d THEN f
        ELSE [r \in kept \cup {Rebase(q, s, d) : q \in moved} |->
                 IF r \in kept THEN f[r]
                 ELSE f[s \o SubSeq(r, Len(d) + 1, Len(r))]]

\* The working directory is a directory, not a name: it follows a rename.
CwdAfterRename(c, s, d) == IF IsPrefix(s, c) /\ s # d THEN Rebase(c, s, d) ELSE c

\* The Brotli transforms on file contents: the encoder marks its output, the
\* decoder rejects input that is not the encoder's output.
BrotliEncode(d) == <<"br">> \o d

BrotliValid(d) == Len(d) >= 1 /\ d[1] = "br"

BrotliDecode(d) == Tail(d)

\* crypto.createHash('sha256') over the content, as hex
Sha256Hex(d) == <<"sha256">> \o d

----------------------------------------------------------------------------
(* handlers: the part that runs when the awaited I/O completes *)

Stream(j, role) == [id |-> j.id, role |-> role]

Outcome(f, c, s, o, j) == [fs |-> f, cwd |-> c, streams |-> s, out |-> o, job |-> j]

Resolved(j) == [j EXCEPT !.stage = "settled"]

Failed(j, m) == [j EXCEPT !.stage = "settled", !.failed = TRUE, !.err = m]

Await(j, stage) == [j EXCEPT !.stage = stage]

\* navigateToSpecificDirectory with the directory recorded as current before
\* it is validated.
navigateToSpecificDirectoryUnvalidated(j) ==
    IF StatCode(fs, j.dst) # ""
    THEN {Outcome(fs, j.dst, streams, <<>>, Failed(j, <<StatCode(fs, j.dst)>>))}
    ELSE IF ChdirCode(fs, j.dst) # ""
    THEN {Outcome(fs, cwd, streams, <<>>, Failed(j, <<ChdirCode(fs, j.dst)>>))}
    ELSE {Outcome(fs, j.dst, streams, <<>>, Resolved(j))}

navigateToSpecificDirectoryAfterStat(j) ==
    LET prospectivePath == j.dst IN
    IF StatCode(fs, prospectivePath) # ""
    THEN {Outcome(fs, cwd, streams, <<>>, Failed(j, <<StatCode(fs, prospectivePath)>>))}
    ELSE IF ChdirCode(fs, prospectivePath) # ""
    THEN {Outcome(fs, cwd, streams, <<>>, Failed(j, <<ChdirCode(fs, prospectivePath)>>))}
    ELSE {Outcome(fs, prospectivePath, streams, <<>>, Resolved(j))}

\* The names in use, in the order localeCompare puts them.
Collation == <<"a", "b", "c", "d", "e", "home", "u">>

Rank(name) == CHOOSE i \in 1..Len(Collation) : Collation[i] = name

\* String.prototype.localeCompare on names
localeCompare(x, y) ==
    IF Rank(x) < Rank(y) THEN -1 ELSE IF Rank(x) > Rank(y) THEN 1 ELSE 0

\* The row of the listing for the node at path q.
FormattedEntry(f, q) ==
    [Name |-> q[Len(q)],
     Type |-> IF f[q].kind = "dir" THEN "Folder"
              ELSE IF f[q].kind = "file" THEN "File" ELSE "Other"]

\* The comparator given to sort: a negative number when itemA is to come
\* first, a positive one when itemB is.
compare(itemA, itemB) ==
    IF itemA.Type = itemB.Type THEN localeCompare(itemA.Name, itemB.Name)
    ELSE IF itemA.Type = "Folder" THEN -1 ELSE 1

\* Array.prototype.sort as the engine of Node.js implements it for arrays
\* this short: the leading run is found (and reversed when it descends), the
\* remaining elements are inserted by binary search.
RECURSIVE RunEnd(_, _, _)
RunEnd(a, idx, descending) ==
    IF idx > Len(a) THEN Len(a)
    ELSE LET order == compare(a[idx], a[idx - 1]) IN
         IF (descending /\ order >= 0) \/ (~descending /\ order < 0) THEN idx - 1
         ELSE RunEnd(a, idx + 1, descending)

Reversed(a) == [i \in 1..Len(a) |-> a[Len(a) + 1 - i]]

RECURSIVE InsertionPoint(_, _, _, _)
InsertionPoint(a, pivot, left, right) ==
    IF left >= right THEN left
    ELSE LET mid == left + ((right - left) \div 2) IN
         IF compare(pivot, a[mid]) < 0 THEN InsertionPoint(a, pivot, left, mid)
         ELSE InsertionPoint(a, pivot, mid + 1, right)

\* The array with the element at `start` moved to position `at`.
Inserted(a, start, at) ==
    SubSeq(a, 1, at - 1) \o <<a[start]>> \o SubSeq(a, at, start - 1)
    \o SubSeq(a, start + 1, Len(a))

RECURSIVE BinaryInsertionSort(_, _)
BinaryInsertionSort(a, start) ==
    IF start > Len(a) THEN a
    ELSE BinaryInsertionSort(Inserted(a, start, InsertionPoint(a, a[start], 1, start)),
                             start + 1)

sort(a) ==
    IF Len(a) < 2 THEN a
    ELSE LET descending == compare(a[2], a[1]) < 0
             run == RunEnd(a, 3, descending)
             made == IF descending
                     THEN Reversed(SubSeq(a, 1, run)) \o SubSeq(a, run + 1, Len(a))
                     ELSE a
         IN  BinaryInsertionSort(made, run + 1)

\* The orders in which fs.readdir can return the entries S.
RECURSIVE Orders(_)
Orders(S) ==
    IF S = {} THEN {<<>>}
    ELSE UNION {{<<x>> \o rest : rest \in Orders(S \ {x})} : x \in S}

\* The rows of console.table as one sequence: type, name, type, name, ...
RECURSIVE Table(_)
Table(rows) ==
    IF rows = <<>> THEN <<>>
    ELSE <<rows[1].Type, rows[1].Name>> \o Table(Tail(rows))

\* The listings `ls` can print for directory p: the entries in the order
\* readdir returned them, formatted and then sorted.
Listings(f, p) ==
    {sort([i \in 1..Len(entries) |-> FormattedEntry(f, entries[i])]) :
        entries \in Orders(Children(f, p))}

enumerateDirectoryContentsAfterReaddir(j) ==
    IF ReaddirCode(fs, j.src) # ""
    THEN {Outcome(fs, cwd, streams, <<>>, Failed(j, <<ReaddirCode(fs, j.src)>>))}
    ELSE IF Children(fs, j.src) = {}
    THEN {Outcome(fs, cwd, streams, <<Msg("info", <<"This directory is empty.">>)>>,
                  Resolved(j))}
    ELSE {Outcome(fs, cwd, streams, <<Msg("table", Table(formattedEntries))>>, Resolved(j)) :
             formattedEntries \in Listings(fs, j.src)}

streamResourceContentToConsoleAfterRead(j) ==
    IF ReadCode(fs, j.src) # ""
    THEN {Outcome(fs, cwd, streams \ {Stream(j, "read")}, <<>>,
                  Failed(j, <<"Error reading resource", ReadCode(fs, j.src)>>))}
    ELSE {Outcome(fs, cwd, streams \ {Stream(j, "read")},
                  <<Msg("data", fs[j.src].data), Msg("data", <<"\n">>)>>, Resolved(j))}

\* generateNewEmptyFile with flag 'w' in place of 'wx'.
generateNewEmptyFileOverwriting(j) ==
    IF WriteOpenCode(fs, j.dst) # ""
    THEN {Outcome(fs, cwd, streams, <<>>, Failed(j, <<WriteOpenCode(fs, j.dst)>>))}
    ELSE {Outcome(Truncate(fs, j.dst), cwd, streams, <<Msg("log", <<"created">>)>>,
                  Resolved(j))}

generateNewEmptyFileAfterWriteFile(j) ==
    IF ExclusiveCreateCode(fs, j.dst) # ""
    THEN {Outcome(fs, cwd, streams, <<>>, Failed(j, <<ExclusiveCreateCode(fs, j.dst)>>))}
    ELSE {Outcome(Truncate(fs, j.dst), cwd, streams, <<Msg("log", <<"created">>)>>,
                  Resolved(j))}

modifyResourceNameAfterRename(j) ==
    IF RenameCode(fs, j.src, j.dst) # ""
    THEN {Outcome(fs, cwd, streams, <<>>, Failed(j, <<RenameCode(fs, j.src, j.dst)>>))}
    ELSE {Outcome(Renamed(fs, j.src, j.dst), CwdAfterRename(cwd, j.src, j.dst), streams,
                  <<Msg("log", <<"Renamed">>)>>, Resolved(j))}

obliterateSystemItemAfterUnlink(j) ==
    IF UnlinkCode(fs, j.src) # ""
    THEN {Outcome(fs, cwd, streams, <<>>, Failed(j, <<UnlinkCode(fs, j.src)>>))}
    ELSE {Outcome(Remove(fs, j.src), cwd, streams, <<Msg("log", <<"removed">>)>>,
                  Resolved(j))}

generateResourceChecksumAfterRead(j) ==
    IF ReadCode(fs, j.src) # ""
    THEN {Outcome(fs, cwd, streams \ {Stream(j, "read")}, <<>>,
                  Failed(j, <<"Error during hash calculation", ReadCode(fs, j.src)>>))}
    ELSE {Outcome(fs, cwd, streams \ {Stream(j, "read")},
                  <<Msg("hash", Sha256Hex(fs[j.src].data))>>, Resolved(j))}

\* 'move' or 'copy', as the messages of transferResourceViaStream say it.
OperationWord(cmd) == IF cmd = "mv" THEN "move" ELSE "copy"

\* transferResourceViaStream without the directory check.
transferResourceViaStreamAnyKind(j) ==
    IF StatCode(fs, j.src) # ""
    THEN {Outcome(fs, cwd, streams, <<>>, Failed(j, <<StatCode(fs, j.src)>>))}
    ELSE {Outcome(fs, cwd, streams \cup {Stream(j, "read"), Stream(j, "write")}, <<>>,
                  Await(j, "open"))}

\* After the metadata query: the directory check, then both streams are created.
transferResourceViaStreamAfterStat(j) ==
    IF StatCode(fs, j.src) # ""
    THEN {Outcome(fs, cwd, streams, <<>>, Failed(j, <<StatCode(fs, j.src)>>))}
    ELSE IF IsDir(fs, j.src)
    THEN {Outcome(fs, cwd, streams, <<>>,
                  Failed(j, <<"Cannot", OperationWord(j.cmd), "a directory with this command.">>))}
    ELSE {Outcome(fs, cwd, streams \cup {Stream(j, "read"), Stream(j, "write")}, <<>>,
                  Await(j, "open"))}

\* Both streams open their files.  A stream that fails is destroyed and its
\* 'error' listener rejects the promise; pipe() leaves the other stream as it
\* is.  When both fail, either error is the one reported.
transferResourceViaStreamAfterOpen(j) ==
    LET rc == ReadCode(fs, j.src)
        wc == WriteOpenCode(fs, j.dst)
        rs == Stream(j, "read")
        ws == Stream(j, "write")
        readError == <<"Read stream error during", OperationWord(j.cmd), rc>>
        writeError == <<"Write stream error during", OperationWord(j.cmd), wc>>
    IN  IF rc = "" /\ wc = ""
        THEN {Outcome(Truncate(fs, j.dst), cwd, streams, <<>>,
                      [Await(j, "pipe") EXCEPT !.data = fs[j.src].data, !.wfile = j.dst])}
        ELSE IF wc = ""
        THEN {Outcome(Truncate(fs, j.dst), cwd, streams \ {rs}, <<>>, Failed(j, readError))}
        ELSE IF rc = ""
        THEN {Outcome(fs, cwd, streams \ {ws}, <<>>, Failed(j, writeError))}
        ELSE {Outcome(fs, cwd, streams \ {rs, ws}, <<>>, Failed(j, m)) :
                 m \in {readError, writeError}}

\* The write stream has finished: the promise resolves, and the .then()
\* callback logs the copy or goes on to delete the source.
transferResourceViaStreamAfterPipe(j) ==
    LET done == streams \ {Stream(j, "read"), Stream(j, "write")} IN
    IF j.cmd = "mv"
    THEN {Outcome(WriteData(fs, j.wfile, j.data), cwd, done, <<>>, Await(j, "unlink"))}
    ELSE {Outcome(WriteData(fs, j.wfile, j.data), cwd, done, <<Msg("log", <<"Copied">>)>>,
                  Resolved(j))}

transferResourceViaStreamAfterUnlink(j) ==
    IF UnlinkCode(fs, j.src) # ""
    THEN {Outcome(fs, cwd, streams, <<>>, Failed(j, <<UnlinkCode(fs, j.src)>>))}
    ELSE {Outcome(Remove(fs, j.src), cwd, streams, <<Msg("log", <<"Moved">>)>>, Resolved(j))}

\* 'encode' or 'decode', the mode of transformFileWithBrotli.
Mode(cmd) == IF cmd = "compress" THEN "encode" ELSE "decode"

transformFileWithBrotliAfterOpen(j) ==
    LET rc == ReadCode(fs, j.src)
        wc == WriteOpenCode(fs, j.dst)
        rs == Stream(j, "read")
        ws == Stream(j, "write")
        readError == <<"Read stream error during Brotli", Mode(j.cmd), rc>>
        writeError == <<"Write stream error during Brotli", Mode(j.cmd), wc>>
    IN  IF rc = "" /\ wc = ""
        THEN {Outcome(Truncate(fs, j.dst), cwd, streams, <<>>,
                      [Await(j, "pipe") EXCEPT !.data = Truncate(fs, j.dst)[j.src].data,
                                               !.wfile = j.dst])}
        ELSE IF wc = ""
        THEN {Outcome(Truncate(fs, j.dst), cwd, streams \ {rs}, <<>>, Failed(j, readError))}
        ELSE IF rc = ""
        THEN {Outcome(fs, cwd, streams \ {ws}, <<>>, Failed(j, writeError))}
        ELSE {Outcome(fs, cwd, streams \ {rs, ws}, <<>>, Failed(j, m)) :
                 m \in {readError, writeError}}

transformFileWithBrotliAfterPipe(j) ==
    LET all == {Stream(j, "read"), Stream(j, "brotli"), Stream(j, "write")} IN
    IF j.cmd = "compress"
    THEN {Outcome(WriteData(fs, j.wfile, BrotliEncode(j.data)), cwd, streams \ all,
                  <<Msg("log", <<"compressed">>)>>, Resolved(j))}
    ELSE IF BrotliValid(j.data)
    THEN {Outcome(WriteData(fs, j.wfile, BrotliDecode(j.data)), cwd, streams \ all,
                  <<Msg("log", <<"decompressed">>)>>, Resolved(j))}
    ELSE {Outcome(fs, cwd, streams \ {Stream(j, "brotli")}, <<>>,
                  Failed(j, <<"Brotli stream error during", Mode(j.cmd), "ERR_INVALID_DATA">>))}

\* What the completion of the I/O that invocation j awaits leads to.
Continue(j) ==
    CASE j.cmd = "cd" -> navigateToSpecificDirectoryAfterStat(j)
      [] j.cmd = "ls" -> enumerateDirectoryContentsAfterReaddir(j)
      [] j.cmd = "cat" -> streamResourceContentToConsoleAfterRead(j)
      [] j.cmd = "add" -> generateNewEmptyFileAfterWriteFile(j)
      [] j.cmd = "rn" -> modifyResourceNameAfterRename(j)
      [] j.cmd = "rm" -> obliterateSystemItemAfterUnlink(j)
      [] j.cmd = "hash" -> generateResourceChecksumAfterRead(j)
      [] j.cmd \in {"cp", "mv"} /\ j.stage = "stat" -> transferResourceViaStreamAfterStat(j)
      [] j.cmd \in {"cp", "mv"} /\ j.stage = "open" -> transferResourceViaStreamAfterOpen(j)
      [] j.cmd \in {"cp", "mv"} /\ j.stage = "pipe" -> transferResourceViaStreamAfterPipe(j)
      [] j.cmd \in {"cp", "mv"} /\ j.stage = "unlink" -> transferResourceViaStreamAfterUnlink(j)
      [] j.cmd \in {"compress", "decompress"} /\ j.stage = "open" ->
             transformFileWithBrotliAfterOpen(j)
      [] j.cmd \in {"compress", "decompress"} /\ j.stage = "pipe" ->
             transformFileWithBrotliAfterPipe(j)

----------------------------------------------------------------------------
(* the dispatch loop *)

commandRegistry == {"up", "cd", "ls", "cat", "add", "rn", "cp", "mv", "rm", "os", "hash",
                    "compress", "decompress", ".exit"}

\* targetFunction(...operationArgs) for an own key of the registry other
\* than '.exit': the handler's synchronous part.
Invoke(id, name, args) ==
    CASE name = "up" -> navigateUpward(id, args)
      [] name = "cd" -> navigateToSpecificDirectory(id, args)
      [] name = "ls" -> enumerateDirectoryContents(id, args)
      [] name = "cat" -> streamResourceContentToConsole(id, args)
      [] name = "add" -> generateNewEmptyFile(id, args)
      [] name = "rn" -> modifyResourceName(id, args)
      [] name \in {"cp", "mv"} -> transferResourceViaStream(id, name, args)
      [] name = "rm" -> obliterateSystemItem(id, args)
      [] name = "os" -> reportOperatingSystemProperty(id, args)
      [] name = "hash" -> generateResourceChecksum(id, args)
      [] name \in {"compress", "decompress"} -> transformFileWithBrotli(id, name, args)

\* The streams a handler has created when its synchronous part returns.
Created(j) ==
    IF j.stage = "read" THEN {Stream(j, "read")}
    ELSE IF j.stage = "open" THEN {Stream(j, "read"), Stream(j, "brotli"), Stream(j, "write")}
    ELSE {}

RECURSIVE TrimStart(_)
TrimStart(s) == IF s # <<>> /\ Head(s) = WS THEN TrimStart(Tail(s)) ELSE s

RECURSIVE TrimEnd(_)
TrimEnd(s) ==
    IF s # <<>> /\ s[Len(s)] = WS THEN TrimEnd(SubSeq(s, 1, Len(s) - 1)) ELSE s

\* String.prototype.trim on a raw line
Trim(s) == TrimEnd(TrimStart(s))

\* split(/\s+/g) on a trimmed line whose tokens are separated by whitespace
Split(s) == SelectSeq(s, LAMBDA x : x # WS)

\* The rest of the 'line' callback without the catch block's report.
FinishSilently(j) == displayCurrentPath

\* The rest of the 'line' callback once the handler's promise has settled:
\* the catch block, then the redisplay.
Finish(j) == (IF j.failed THEN ReportFailure(j.err) ELSE <<>>) \o displayCurrentPath

Event(kind, j, res) == [kind |-> kind, job |-> j, res |-> res]

Named(id, name, args) == [NoJob EXCEPT !.id = id, !.cmd = name, !.args = args, !.cwd0 = cwd]

After(c, js, s, o, e, x) ==
    [cwd |-> c, jobs |-> js, streams |-> s, out |-> o, ev |-> e, exitCode |-> x]

\* The '.exit' entry with the call that ends the process left out: the
\* message is logged and the entry returns like any other handler.
TerminateSessionLogOnly(named) ==
    After(cwd, jobs \cup {[named EXCEPT !.stage = "settled"]}, streams,
          <<Msg("log", <<"Goodbye">>)>>,
          Event("line", [named EXCEPT !.stage = "settled"], "exit"), Running)

\* The '.exit' entry of the registry: the farewell is logged and the process
\* exits with code 0 inside the call, which never returns.
TerminateSession(named) ==
    After(cwd, jobs, streams, <<Msg("log", <<"Goodbye">>)>>, Event("line", named, "exit"), 0)

\* The synchronous part of the 'line' callback for one raw line.
OnLine(id, userInputLine) ==
    LET trimmedInput == Trim(userInputLine)
        tokens == Split(trimmedInput)
        operationName == Key(Head(tokens))
        operationArgs == Tail(tokens)
        targetFunction == Lookup(commandRegistry, operationName)
        named == Named(id, operationName, operationArgs)
        st == Invoke(id, operationName, operationArgs)
    IN  IF trimmedInput = <<>>
        THEN After(cwd, jobs, streams, displayCurrentPath,
                   Event("line", [NoJob EXCEPT !.id = id, !.cwd0 = cwd], "empty"), Running)
        ELSE IF targetFunction = "undefined"
        THEN After(cwd, jobs, streams, <<Msg("warn", <<"Unknown operation">>)>> \o displayCurrentPath,
                   Event("line", named, "unknown"), Running)
        ELSE IF targetFunction = "object"
        THEN After(cwd, jobs, streams,
                   ReportFailure(<<"targetFunction is not a function">>) \o displayCurrentPath,
                   Event("line", named, "threw"), Running)
        ELSE IF targetFunction = "function"
        THEN After(cwd, jobs \cup {[named EXCEPT !.stage = "settled"]}, streams, <<>>,
                   Event("line", [named EXCEPT !.stage = "settled"], "called"), Running)
        ELSE IF operationName = ".exit"
        THEN TerminateSession(named)
        ELSE After(st.cwd, jobs \cup {st.job}, streams \cup Created(st.job), st.out,
                   Event("line", st.job, "called"), Running)

\* The raw lines of the sessions explored: tokens separated by whitespace.
Spaced(toks) ==
    [i \in 1..(2 * Len(toks) - 1) |-> IF i % 2 = 1 THEN toks[(i + 1) \div 2] ELSE WS]

Commands ==
    { <<<<"up">>>>, <<<<"ls">>>>, <<<<".exit">>>>,
      <<<<"cd">>>>, <<<<"cd">>, <<"d">>>>, <<<<"cd">>, <<"..">>>>, <<<<"cd">>, <<"nope">>>>,
      <<<<"cd">>, <<"a">>>>, <<<<"cd">>, <<"u">>>>,
      <<<<"cat">>>>, <<<<"cat">>, <<"a">>>>, <<<<"cat">>, <<"nope">>>>,
      <<<<"add">>>>, <<<<"add">>, <<"a">>>>, <<<<"add">>, <<"b">>>>,
      <<<<"add">>, <<"nope", "b">>>>,
      <<<<"rn">>, <<"a">>>>, <<<<"rn">>, <<"a">>, <<"b">>>>, <<<<"rn">>, <<"d">>, <<"e">>>>,
      <<<<"rm">>>>, <<<<"rm">>, <<"a">>>>, <<<<"rm">>, <<"d">>>>,
      <<<<"os">>>>, <<<<"os">>, <<"--EOL">>>>, <<<<"os">>, <<"toString">>>>,
      <<<<"os">>, <<"bogus">>>>,
      <<<<"hash">>>>, <<<<"hash">>, <<"a">>>>,
      <<<<"compress">>, <<"a">>>>, <<<<"compress">>, <<"a">>, <<"b">>>>,
      <<<<"compress">>, <<"nope">>, <<"b">>>>, <<<<"decompress">>, <<"a">>, <<"b">>>>,
      <<<<"compress">>, <<"a">>, <<"a">>>>, <<<<"decompress">>, <<"b">>, <<"c">>>>,
      <<<<"decompress">>, <<"a">>, <<"c">>>>,
      <<<<"foo">>>>, <<<<"constructor">>>>, <<<<"toString">>>>, <<<<"__proto__">>>> }
    \cup { <<<<c>>>> \o t : c \in {"cp", "mv"},
                            t \in { <<<<"a">>>>, <<<<"a">>, <<"d">>>>, <<<<"a">>, <<".">>>>,
                                    <<<<"a">>, <<"nope">>>>, <<<<"nope">>, <<"d">>>>,
                                    <<<<"d">>, <<"d">>>>, <<<<"d">>, <<".">>>>,
                                    <<<<"d">>, <<"nope">>>> } }

RawLines ==
    {Spaced(c) : c \in Commands}
    \cup { <<>>, <<WS>>, <<WS, WS>>, <<WS, <<"up">>, WS>>, <<<<"cd">>, WS, WS, <<"d">>>> }

----------------------------------------------------------------------------
(* the session *)

fs0 ==
    (<<>> :> Dir) @@ (<<"home">> :> Dir) @@ (Home :> Dir)
    @@ (<<"home", "u", "d">> :> Dir) @@ (<<"home", "u", "a">> :> File(<<"x">>))

\* The start-up code has changed to the home directory, greeted and shown
\* the location and the prompt.
Init ==
    /\ fs = fs0
    /\ cwd = Home
    /\ jobs = {}
    /\ streams = {}
    /\ nlines = 0
    /\ out = <<Msg("log", <<"Salutation">>)>> \o displayCurrentPath
    /\ ev = Event("init", NoJob, "")
    /\ exitCode = Running

\* readline emits 'line': the callback runs up to its first await.
Read(max, userInputLine) ==
    /\ exitCode = Running
    /\ nlines < max
    /\ LET r == OnLine(nlines + 1, userInputLine) IN
          /\ cwd' = r.cwd
          /\ jobs' = r.jobs
          /\ streams' = r.streams
          /\ out' = r.out
          /\ ev' = r.ev
          /\ exitCode' = r.exitCode
    /\ nlines' = nlines + 1
    /\ fs' = fs

ReadLine(userInputLine) == Read(MaxLines, userInputLine)

Settled == {j \in jobs : j.stage = "settled"}

\* The continuation of a callback whose handler promise was settled when it
\* was awaited: a microtask, run in the order of the awaits.
Resume(j) ==
    /\ exitCode = Running
    /\ j \in Settled
    /\ \A k \in Settled : j.id <= k.id
    /\ jobs' = jobs \ {j}
    /\ out' = Finish(j)
    /\ ev' = Event("resume", j, IF j.failed THEN "failed" ELSE "ok")
    /\ UNCHANGED <<fs, cwd, streams, nlines, exitCode>>

\* Where no path leads: the file behind a descriptor whose name is gone.
Orphan == <<"(unlinked)">>

\* An open write stream holds the file, not its name.  After the I/O of
\* invocation j has made the file system f, the file that invocation k
\* writes to has followed a rename, and is out of reach once its name has
\* been unlinked or given to another file.
Descriptor(k, j, f) ==
    LET renamed == j.cmd = "rn" /\ j.stage = "rename" /\ j.src # j.dst
                   /\ RenameCode(fs, j.src, j.dst) = ""
        w == IF ~renamed THEN k.wfile
             ELSE IF k.wfile = j.dst THEN Orphan
             ELSE CwdAfterRename(k.wfile, j.src, j.dst)
    IN  IF k.stage # "pipe" THEN k
        ELSE [k EXCEPT !.wfile = IF IsFile(f, w) THEN w ELSE Orphan]

\* The I/O that invocation j awaits completes; the handler goes on to its
\* next await, or settles, and then the callback finishes in the same turn.
\* Microtasks run before any I/O callback.
Complete(j) ==
    /\ exitCode = Running
    /\ j \in jobs \ Settled
    /\ Settled = {}
    /\ \E r \in Continue(j) :
          /\ fs' = r.fs
          /\ cwd' = r.cwd
          /\ streams' = r.streams
          /\ IF r.job.stage = "settled"
             THEN /\ jobs' = {Descriptor(k, j, r.fs) : k \in jobs \ {j}}
                  /\ out' = r.out \o Finish(r.job)
                  /\ ev' = Event("io", r.job, IF r.job.failed THEN "failed" ELSE "ok")
             ELSE /\ jobs' = {Descriptor(k, j, r.fs) : k \in jobs \ {j}} \cup {r.job}
                  /\ out' = r.out
                  /\ ev' = Event("io", r.job, "pending")
    /\ UNCHANGED <<nlines, exitCode>>

\* readline emits 'close' (end of input): the process exits at once.
Close ==
    /\ exitCode = Running
    /\ out' = <<Msg("log", <<"session ended">>)>>
    /\ ev' = Event("close", NoJob, "exit")
    /\ exitCode' = 0
    /\ UNCHANGED <<fs, cwd, jobs, streams, nlines>>

Next ==
    \/ \E l \in RawLines : ReadLine(l)
    \/ \E j \in jobs : Resume(j)
    \/ \E j \in jobs : Complete(j)
    \/ Close

Spec == Init /\ [][Next]_vars

\* Sessions of navigation commands only, one line longer.
NavLines ==
    {Spaced(c) : c \in {c \in Commands : c[1] \in {<<"up">>, <<"cd">>}}}

ReadNavLine(userInputLine) == Read(MaxNavLines, userInputLine)

NextNav ==
    \/ \E l \in NavLines : ReadNavLine(l)
    \/ \E j \in jobs : Resume(j)
    \/ \E j \in jobs : Complete(j)
    \/ Close

SpecNav == Init /\ [][NextNav]_vars

\* Sessions of listings only, of a home directory that holds any choice of
\* directories, regular files and nodes that are neither (a FIFO, a socket, a
\* device) under the first names of the collation.
Other == [kind |-> "other", data |-> <<>>]

EntryNames == {Collation[i] : i \in 1..MaxEntries}

InitLs ==
    /\ \E names \in SUBSET EntryNames :
          \E nodes \in [names -> {Dir, File(<<>>), Other}] :
             fs = [q \in {<<>>, <<"home">>, Home} \cup {Home \o <<n>> : n \in names} |->
                      IF Len(q) = 3 THEN nodes[q[3]] ELSE Dir]
    /\ cwd = Home
    /\ jobs = {}
    /\ streams = {}
    /\ nlines = 0
    /\ out = <<Msg("log", <<"Salutation">>)>> \o displayCurrentPath
    /\ ev = Event("init", NoJob, "")
    /\ exitCode = Running

ReadLsLine == Read(MaxLsLines, Spaced(<<<<"ls">>>>))

NextLs ==
    \/ ReadLsLine
    \/ \E j \in jobs : Complete(j)
    \/ Close

SpecLs == InitLs /\ [][NextLs]_vars

----------------------------------------------------------------------------
(* properties *)

\* The error codes that report a path that does not exist.
NotFoundCodes == {"ENOENT", "ENOTDIR"}

Has(o, k, m) == \E i \in 1..Len(o) : o[i] = Msg(k, m)

Count(o, k) == Cardinality({i \in 1..Len(o) : o[i].k = k})

\* The step read a line.
LineStep == nlines' = nlines + 1

\* The step ended the 'line' callback of an invocation, whose promise had
\* settled.
EndStep == ev'.kind \in {"resume", "io"} /\ ev'.res \in {"ok", "failed"}

\* The invocation the step is about, as it was before the step.
Before == CHOOSE j \in jobs : j.id = ev'.job.id

\* C1: commands never overlap: while the handler started for a line is still
\* awaiting I/O, no handler has been invoked for a later line.
C1_CommandsNeverOverlap ==
    \A j \in jobs : j.stage # "settled" => \A k \in jobs : k.id <= j.id

C3_UnknownCommandWarns ==
    [][(LineStep /\ ev'.res # "empty" /\ ev'.job.cmd \notin commandRegistry) =>
           /\ ev'.res = "unknown"
           /\ Has(out', "warn", <<"Unknown operation">>)
           /\ jobs' = jobs
           /\ fs' = fs
           /\ cwd' = cwd]_vars

\* C4: every line other than .exit gets its redisplay: when the process has
\* ended, no line's callback is left short of its redisplay.
C4_EveryLineRedisplayed == exitCode # Running => jobs = {}

\* The step is the I/O completion of an invocation of cmd awaiting `stage`.
IoStep(cmd, stage) ==
    /\ ev'.kind = "io"
    /\ ev'.job.cmd = cmd
    /\ \E j \in jobs : j.id = ev'.job.id /\ j.stage = stage

\* The path the first argument of the step's invocation resolves to, against
\* the current directory the invocation started in.
Target == Resolve(ev'.job.cwd0, ev'.job.args[1])

\* C5: `cd <path>` whose resolved path does not exist fails with a not-found
\* error and does not change the current directory, neither when the line is
\* read nor when the metadata query completes.
C5_CdMissingFails ==
    [][/\ (LineStep /\ ev'.job.cmd = "cd") => cwd' = cwd
       /\ (IoStep("cd", "stat") /\ ~Exists(fs, Target)) =>
              /\ ev'.res = "failed"
              /\ \E c \in NotFoundCodes : Has(out', "error", <<c>>)
              /\ cwd' = cwd
              /\ fs' = fs]_vars

C5_Witness ==
    /\ ev.kind = "io" /\ ev.job.cmd = "cd" /\ ev.res = "failed"
    /\ ev.job.args = <<<<"nope">>>>
    /\ ~Exists(fs, ev.job.cwd0 \o <<"nope">>)
    /\ Has(out, "error", <<"ENOENT">>)
    /\ cwd = ev.job.cwd0

\* C6: `up` at the home directory changes neither the current directory nor
\* the file system and prints the informational message; anywhere else it
\* makes the parent directory the current one.
C6_UpAtHome ==
    [][(LineStep /\ ev'.job.cmd = "up") =>
           /\ fs' = fs
           /\ IF cwd = Home
              THEN cwd' = cwd /\ Has(out', "info", <<"AtRoot">>)
              ELSE cwd' = Parent(cwd) /\ out' = <<>>]_vars

C6_Witness ==
    /\ ev.kind = "line" /\ ev.job.cmd = "up"
    /\ ev.job.cwd0 = Home /\ cwd = Home
    /\ Has(out, "info", <<"AtRoot">>)

\* C7: no `up` moves the current directory to a strict ancestor of the home
\* directory.
C7_UpBoundedAtHome ==
    [][(LineStep /\ ev'.job.cmd = "up") =>
           ~(cwd' # cwd /\ IsStrictPrefix(cwd', Home))]_vars

\* A token that names a child of a directory.
IsChildName(tok) == Len(tok) = 1 /\ tok[1] \notin {"/", "..", "."}

\* The last step completed `cd d` for a child directory d of the directory C
\* the command started in, and C/d is the current directory.
JustEntered ==
    /\ ev.kind = "io" /\ ev.job.cmd = "cd" /\ ev.res = "ok"
    /\ IsChildName(ev.job.args[1])
    /\ cwd = ev.job.cwd0 \o ev.job.args[1]

\* The completion of `cd d`, d an existing child directory of the directory
\* C the command started in, makes C/d the current directory.
CdEnters ==
    (IoStep("cd", "stat") /\ IsChildName(ev'.job.args[1]) /\ IsDir(fs, Target)) =>
        /\ ev'.res = "ok"
        /\ cwd' = ev'.job.cwd0 \o ev'.job.args[1]

\* An `up` read while the current directory is the home directory C, reached
\* by the `up` before it, leaves it at C.
UpAgainStays ==
    (ev.job.cmd = "up" /\ cwd = Home /\ LineStep /\ ev'.job.cmd = "up") =>
        cwd' = cwd /\ Has(out', "info", <<"AtRoot">>)

\* C8 as stated: `cd d` makes the current directory C/d and the `up` that
\* follows makes it C again, whatever C is.
C8_RoundTripAnywhere ==
    [][/\ CdEnters
       /\ (JustEntered /\ LineStep /\ ev'.job.cmd = "up") => cwd' = ev.job.cwd0
       /\ UpAgainStays]_vars

\* C8, amended: `cd d` makes the current directory C/d, and the `up` that
\* follows makes it C again unless C/d is the home directory, where `up`
\* leaves it at C/d; with C the home directory a further `up` leaves it at C.
C8_RoundTrip ==
    [][/\ CdEnters
       /\ (JustEntered /\ LineStep /\ ev'.job.cmd = "up") =>
              IF cwd = Home THEN cwd' = cwd ELSE cwd' = ev.job.cwd0
       /\ UpAgainStays]_vars

C8_Witness ==
    /\ ev.kind = "line" /\ ev.job.cmd = "up" /\ ev.job.id = 3
    /\ ev.job.cwd0 = Home /\ cwd = Home
    /\ Has(out, "info", <<"AtRoot">>)
    /\ \E j \in jobs : j.id = 2 /\ j.cmd = "up" /\ j.cwd0 = Home \o <<"d">>

\* `add` fails with the already-exists error and leaves the file system as it
\* is when a file exists at the resolved path.
AddKeepsExisting ==
    (IoStep("add", "writeFile") /\ IsFile(fs, Target)) =>
        /\ ev'.res = "failed"
        /\ Has(out', "error", <<"EEXIST">>)
        /\ fs' = fs

\* The file system differs from f by one new empty file at p.
CreatedEmpty(f, p) ==
    /\ DOMAIN fs' = DOMAIN f \cup {p}
    /\ fs'[p] = File(<<>>)
    /\ \A q \in DOMAIN f : fs'[q] = f[q]

\* C9 as stated: `add <name>` creates a zero-length file whenever nothing
\* exists at the resolved path, and fails, leaving the content as it is, when
\* a file exists there.
C9_AddCreatesWheneverAbsent ==
    [][/\ (IoStep("add", "writeFile") /\ ~Exists(fs, Target)) =>
              ev'.res = "ok" /\ CreatedEmpty(fs, Target)
       /\ AddKeepsExisting]_vars

\* C9, amended: `add <name>` creates a zero-length file when nothing exists
\* at the resolved path and the directory that is to contain it exists
\* (without that directory it fails and creates nothing); when a file exists
\* at the path it fails with the already-exists error and leaves the content
\* as it is.
C9_AddExclusive ==
    [][/\ (IoStep("add", "writeFile") /\ ~Exists(fs, Target)) =>
              IF IsDir(fs, Parent(Target))
              THEN ev'.res = "ok" /\ CreatedEmpty(fs, Target)
              ELSE ev'.res = "failed" /\ fs' = fs
       /\ AddKeepsExisting]_vars

C9_Witness ==
    /\ ev.kind = "io" /\ ev.job.cmd = "add" /\ ev.res = "failed"
    /\ Has(out, "error", <<"EEXIST">>)
    /\ ev.job.args = <<<<"b">>>>
    /\ IsFile(fs, Home \o <<"b">>) /\ fs[Home \o <<"b">>].data = <<>>

\* A step of a `cp` or `mv` given both arguments.
TransferStep == ev'.job.cmd \in {"cp", "mv"} /\ Len(ev'.job.args) >= 2

\* The step ends a `cp` or `mv` that was rejected before its metadata query,
\* and its source path resolves to a directory.
RejectedDirectoryTransfer ==
    TransferStep /\ ev'.kind = "resume" /\ IsDir(fs, Target)

\* The step completes the metadata query of a `cp` or `mv`, and the query
\* finds a directory.
QueriedDirectoryTransfer ==
    TransferStep /\ IoStep(ev'.job.cmd, "stat") /\ IsDir(fs, Before.src)

CannotTransfer == <<"Cannot", OperationWord(ev'.job.cmd), "a directory with this command.">>

\* The step fails with message m and creates, changes and opens nothing.
FailsWith(m) ==
    /\ ev'.res = "failed"
    /\ Has(out', "error", m)
    /\ fs' = fs
    /\ streams' = streams

\* C10 as stated: `cp` and `mv` of a directory fail with the
\* unsupported-operation error for every destination, and create or modify
\* nothing.
C10_DirectoryAlwaysUnsupported ==
    [][/\ (LineStep /\ TransferStep) => fs' = fs /\ streams' = streams
       /\ RejectedDirectoryTransfer => FailsWith(CannotTransfer)
       /\ QueriedDirectoryTransfer => FailsWith(CannotTransfer)]_vars

\* C10, amended: `cp` and `mv` of a directory fail and create or modify
\* nothing; the error is the unsupported-operation error raised after the
\* metadata query, unless the destination joined with the source's basename
\* is the source path itself, where it is the identical-paths error raised
\* before the query.
C10_DirectoryRejected ==
    [][/\ (LineStep /\ TransferStep) => fs' = fs /\ streams' = streams
       /\ RejectedDirectoryTransfer =>
              /\ Resolve(Resolve(ev'.job.cwd0, ev'.job.args[2]), Basename(Target)) = Target
              /\ FailsWith(<<"Source and destination paths are identical.">>)
       /\ QueriedDirectoryTransfer =>
              /\ Before.dst # Before.src
              /\ FailsWith(CannotTransfer)]_vars

C10_Witness ==
    /\ ev.kind = "io" /\ ev.job.cmd = "mv" /\ ev.res = "failed"
    /\ ev.job.args = <<<<"d">>, <<"nope">>>>
    /\ IsDir(fs, ev.job.src)
    /\ Has(out, "error", <<"Cannot", "move", "a directory with this command.">>)
    /\ ~Exists(fs, ev.job.dst)

----------------------------------------------------------------------------
(* mv *)

\* The step completes the delete of a `mv`, which ends it with success.
MoveDone == IoStep("mv", "unlink") /\ ev'.res = "ok"

\* C11: when `mv F D` has completed, D/basename(F) is a file with the content
\* F had when the command was given and F is gone from its path, which is the
\* state `cp F D` and then the deletion of F lead to.
C11_MoveIsCopyThenDelete ==
    [][MoveDone =>
          /\ IsFile(fs', Before.dst)
          /\ fs'[Before.dst].data = Before.orig
          /\ ~Exists(fs', Before.src)]_vars

----------------------------------------------------------------------------
(* compress, decompress *)

\* The step completes a `decompress B C` with success, its line was read
\* right after a `compress A B` had completed with success, and A was a file
\* that was not empty when that command was given.
RoundTripDone ==
    /\ IoStep("decompress", "pipe")
    /\ ev'.res = "ok"
    /\ Before.prev.cmd = "compress"
    /\ Before.prev.dst = Before.src
    /\ Before.prev.orig # <<>>

\* C12: for a non-empty file A and any target paths B and C, `compress A B`
\* and then `decompress B C` leave C a file with the content A had.
C12_RoundTripAnyTargets ==
    [][RoundTripDone =>
          /\ IsFile(fs', Before.dst)
          /\ fs'[Before.dst].data = Before.prev.orig]_vars

----------------------------------------------------------------------------
(* os *)

\* The step ends an `os <key>` whose key is none of the five supported keys.
OtherKeyDone ==
    /\ ev'.kind = "resume"
    /\ ev'.job.cmd = "os"
    /\ Len(ev'.job.args) >= 1
    /\ Key(ev'.job.args[1]) \notin propertyAccessors

\* C13: `os <key>` fails with the invalid-key error for every key other than
\* --EOL, --cpus, --homedir, --username and --architecture, names every
\* object inherits (toString, constructor) included.
C13_OtherKeysInvalid ==
    [][OtherKeyDone =>
          /\ ev'.res = "failed"
          /\ Has(out', "error", <<"Invalid OS property key">> \o ev'.job.args[1])]_vars

----------------------------------------------------------------------------
(* the end of the session *)

\* The step is the 'close' callback.
CloseStep == ev'.kind = "close" /\ exitCode = Running

\* C14: every invocation that was started has completed, or failed with its
\* error printed, before the session ends other than through `.exit`: when
\* the close of the input ends the process, no invocation awaits I/O and no
\* failure is still to be printed.
C14_CloseAwaitsHandlers ==
    [][CloseStep => \A j \in jobs : j.stage = "settled" /\ ~j.failed]_vars

\* C15: `.exit` ends the process with exit code 0 at once: the step that
\* reads the line issues no redisplay and invokes no handler, and no step
\* follows it, so no prompt is issued and no later line is dispatched.
C15_ExitEndsAtOnce ==
    [][/\ (LineStep /\ ev'.job.cmd = ".exit") =>
              /\ exitCode' = 0
              /\ Count(out', "display") = 0
              /\ jobs' = jobs
       /\ (ev.kind = "line" /\ ev.res = "exit") =>
              /\ nlines' = nlines
              /\ Count(out', "display") = 0
              /\ exitCode' = 0]_vars

\* `.exit` has ended the session while more lines could have been read.
C15_Witness ==
    /\ ev.kind = "line" /\ ev.res = "exit"
    /\ exitCode = 0
    /\ nlines < MaxLines

----------------------------------------------------------------------------
(* streams *)

StreamCommands == {"cp", "mv", "compress", "decompress"}

\* C16: in `cp`, `mv`, `compress` and `decompress` every stream the handler
\* opened is closed by the time its promise has settled, with success or
\* with any failure.
C16_StreamsClosedWhenSettled ==
    [][(EndStep /\ ev'.job.cmd \in StreamCommands) =>
           \A s \in streams' : s.id # ev'.job.id]_vars

----------------------------------------------------------------------------
(* mv: the source of a failed move *)

\* The step ends with a failure a `mv` whose source was a file with some
\* content when the command was given.
MoveFailed ==
    /\ EndStep
    /\ ev'.job.cmd = "mv"
    /\ ev'.res = "failed"
    /\ ev'.job.orig # <<>>

\* C17: `mv` deletes the source only after the write stream has finished, so
\* whenever `mv` fails, at whatever stage, the source file is still at its
\* path with the content it had.
C17_FailedMoveKeepsSource ==
    [][MoveFailed =>
          /\ IsFile(fs', ev'.job.src)
          /\ fs'[ev'.job.src].data = ev'.job.orig]_vars

----------------------------------------------------------------------------
(* cp, mv: identical paths *)

IdenticalPaths == <<"Source and destination paths are identical.">>

\* A step of a `cp` or `mv` whose destination directory joined with the
\* source's basename resolves to the source path itself.
OntoItself ==
    /\ TransferStep
    /\ Resolve(Resolve(ev'.job.cwd0, ev'.job.args[2]), Basename(Target)) = Target

\* C18: a `cp` or `mv` whose resolved source path equals its resolved
\* destination path is rejected with the identical-paths error inside the
\* call, before any metadata query is issued or any stream is opened, and
\* the failure is then reported: nothing is truncated, modified or deleted.
C18_IdenticalPathsRejected ==
    [][/\ (LineStep /\ OntoItself) =>
              /\ ev'.job.stage = "settled"
              /\ ev'.job.failed
              /\ ev'.job.err = IdenticalPaths
              /\ fs' = fs
              /\ streams' = streams
       /\ (ev'.kind \in {"resume", "io"} /\ OntoItself) =>
              /\ ev'.kind = "resume"
              /\ FailsWith(IdenticalPaths)]_vars

\* `mv a .` has failed with the identical-paths error, and a is still the
\* file it was.
C18_Witness ==
    /\ ev.kind = "resume" /\ ev.res = "failed"
    /\ ev.job.cmd = "mv"
    /\ Has(out, "error", IdenticalPaths)
    /\ Basename(Resolve(ev.job.cwd0, ev.job.args[1])) = <<"a">>
    /\ Content(fs, Resolve(ev.job.cwd0, ev.job.args[1])) = <<"x">>

----------------------------------------------------------------------------
(* ls *)

\* The step completes an `ls` that prints a table.
ListingStep == IoStep("ls", "readdir") /\ ev'.res = "ok" /\ Count(out', "table") = 1

\* The rows of the table the step prints.
Printed == CHOOSE i \in 1..Len(out') : out'[i].k = "table"

Rows == 1..(Len(out'[Printed].m) \div 2)

RowType(i) == out'[Printed].m[2 * i - 1]

RowName(i) == out'[Printed].m[2 * i]

\* C19: in the table `ls` prints, whatever the order the directory read
\* returned the entries in, every Folder row precedes every File and Other
\* row, rows that tie on that appear in ascending name order, and the order
\* is one well-defined order: the table does not depend on the order read.
C19_ListingOrder ==
    [][ListingStep =>
          /\ \A i, k \in Rows :
                (i < k) => /\ ~(RowType(i) # "Folder" /\ RowType(k) = "Folder")
                           /\ ((RowType(i) = "Folder") = (RowType(k) = "Folder"))
                                  => localeCompare(RowName(i), RowName(k)) < 0
          /\ \A t \in Listings(fs, Before.src) : Table(t) = out'[Printed].m]_vars
====
